---- MODULE Spec2Model ----
(***************************************************************************)
(* Cadence: recap ingestion (POST /api/analyze-day), the sleep normaliser, *)
(* the previous-day sleep patch and the day detail read.                   *)
(*                                                                         *)
(* Conventions of the model                                                *)
(*  - a calendar date is a day number; getPreviousDateString(d) = d - 1;   *)
(*  - a wall-clock string "HH:MM" is the record [kind, h, m] of what       *)
(*    split(":") and Number() make of it: kind "hm" (two finite numbers),  *)
(*    "nan" (a field that Number() turns into NaN) or "empty" (the empty   *)
(*    or missing string);                                                  *)
(*  - every hours column holds minutes (hours * 60), so that the code's    *)
(*    division by 60 stays exact;                                          *)
(*  - the store is single-owner: every row the routes touch carries        *)
(*    user_id = OWNER_ID, the column is left out.                          *)
(***************************************************************************)
EXTENDS Integers, Sequences, FiniteSets, TLC

VARIABLES
    days,       \* table days: set of rows [id, date, transcript, summary, metrics_id]
    metrics,    \* table metrics: set of rows [id, day_id, sleep_hours, ...]
    events,     \* table events: sequence of rows [day_id, label, category, start_time, end_time]
    users,      \* table users: set of ids
    nextId,     \* [days |-> n, metrics |-> n]: the next generated row ids
    rq,         \* per request slot: the locals of the POST handler and its position
    nreq,       \* number of requests started so far
    log,        \* history: outcome of the last completed request
    nIn,        \* normaliser harness: the candidate day handed to the normaliser
    nOut,       \* normaliser harness: result of normalizeSleepForDay (with its segments)
    nPrev,      \* normaliser harness: result of extractPrevDaySleepSegments
    goals,      \* table goals: set of rows [id, sort_order, created_at]
    gq,         \* per goal request slot: route, position, locals and response
    gclock,     \* number of goal rows inserted so far (source of id and created_at)
    pending     \* the PATCH requests of a persistOrder that are still to arrive

vars == <<days, metrics, events, users, nextId, rq, nreq, log, nIn, nOut, nPrev,
          goals, gq, gclock, pending>>
storeVars == <<days, metrics, events, users, nextId>>
normVars == <<nIn, nOut, nPrev>>
goalVars == <<goals, gq, gclock, pending>>

(***************************************************************************)
(* Bounds                                                                  *)
(***************************************************************************)
MaxDate == 2        \* requests name the dates 1..MaxDate; the store also holds date 0
MaxRequests == 2    \* requests started in one behaviour
MaxEvents == 2      \* length of the event list given to the normaliser harness

Null == 0 - 1       \* SQL null / JS null in a numeric position
NoId == 0           \* a null row reference (generated ids start at 1)

Max(a, b) == IF a >= b THEN a ELSE b
Min(a, b) == IF a <= b THEN a ELSE b

(***************************************************************************)
(* Time strings                                                            *)
(***************************************************************************)
T(h, m) == [kind |-> "hm", h |-> h, m |-> m]
NanTime == [kind |-> "nan", h |-> 0, m |-> 0]
EmptyTime == [kind |-> "empty", h |-> 0, m |-> 0]

\* Mutant: hour and minute are not range-checked
parseTimeToMinutes_NoRange(time) ==
    IF time.kind = "empty" THEN Null
    ELSE IF time.kind = "nan" THEN Null
    ELSE time.h * 60 + time.m

parseTimeToMinutes(time) ==
    IF time.kind = "empty" THEN Null
    ELSE IF time.kind = "nan" THEN Null
    ELSE IF time.h < 0 \/ time.h > 23 \/ time.m < 0 \/ time.m > 59 THEN Null
    ELSE time.h * 60 + time.m

\* Mutant: hour and minute computed the wrong way round
minutesToHHMM_Swapped(totalMinutes) ==
    LET clamped == Max(0, Min(totalMinutes, 24 * 60 - 1))
    IN  T(clamped % 60, clamped \div 60)

minutesToHHMM(totalMinutes) ==
    LET clamped == Max(0, Min(totalMinutes, 24 * 60 - 1))
    IN  T(clamped \div 60, clamped % 60)

(***************************************************************************)
(* Temporal normaliser                                                     *)
(***************************************************************************)
DAY_START == 0
DAY_END == 24 * 60

Event(label, category, startTime, endTime) ==
    [label |-> label, category |-> category, startTime |-> startTime, endTime |-> endTime]

Segment(startMinutes, endMinutes) ==
    [startMinutes |-> startMinutes, endMinutes |-> endMinutes]

\* One iteration of the loop over analysis.events: what it pushes onto
\* newEvents and onto sleepSegments.
NormalizeEvent(ev) ==
    LET startM == parseTimeToMinutes(ev.startTime)
        endM == parseTimeToMinutes(ev.endTime)
        keep == [newEvents |-> <<ev>>, sleepSegments |-> <<>>]
        drop == [newEvents |-> <<>>, sleepSegments |-> <<>>]
        clip(clippedStart, clippedEnd) ==
            IF clippedEnd > clippedStart
            THEN [newEvents |-> <<[ev EXCEPT !.startTime = minutesToHHMM(clippedStart),
                                             !.endTime = minutesToHHMM(clippedEnd)]>>,
                  sleepSegments |-> <<Segment(clippedStart, clippedEnd)>>]
            ELSE drop
    IN  IF ev.category # "sleep" THEN keep
        ELSE IF startM = Null \/ endM = Null THEN keep
        ELSE IF startM <= endM
             THEN clip(Max(startM, DAY_START), Min(endM, DAY_END))
             ELSE clip(DAY_START, Min(endM, DAY_END))

RECURSIVE NormalizeLoop(_)
NormalizeLoop(evs) ==
    IF evs = <<>> THEN [newEvents |-> <<>>, sleepSegments |-> <<>>]
    ELSE LET one == NormalizeEvent(Head(evs))
             rest == NormalizeLoop(Tail(evs))
         IN  [newEvents |-> one.newEvents \o rest.newEvents,
              sleepSegments |-> one.sleepSegments \o rest.sleepSegments]

\* Mutant: the comparison of the reduce turned round (the latest end wins)
RECURSIVE ReduceEarliest_Latest(_, _)
ReduceEarliest_Latest(earliest, segs) ==
    IF segs = <<>> THEN earliest
    ELSE ReduceEarliest_Latest(
            IF Head(segs).endMinutes > earliest.endMinutes THEN Head(segs) ELSE earliest,
            Tail(segs))

\* sleepSegments.reduce((earliest, seg) => ...) without an initial value: the
\* first segment is the first accumulator, the others are visited in order.
RECURSIVE ReduceEarliest(_, _)
ReduceEarliest(earliest, segs) ==
    IF segs = <<>> THEN earliest
    ELSE ReduceEarliest(
            IF Head(segs).endMinutes < earliest.endMinutes THEN Head(segs) ELSE earliest,
            Tail(segs))

MainSegment(sleepSegments) == ReduceEarliest(Head(sleepSegments), Tail(sleepSegments))

SleepMinutesForThisDay(sleepSegments) ==
    IF Len(sleepSegments) > 0
    THEN Max(0, MainSegment(sleepSegments).endMinutes - MainSegment(sleepSegments).startMinutes)
    ELSE 0

\* Mutant: the summarizer's sleepHours is kept when no segment was collected
normalizeSleepForDay_KeepRaw(analysis) ==
    LET loop == NormalizeLoop(analysis.events)
    IN  IF Len(loop.sleepSegments) > 0
        THEN [analysis EXCEPT !.events = loop.newEvents,
                              !.metrics.sleepHours = SleepMinutesForThisDay(loop.sleepSegments)]
        ELSE [analysis EXCEPT !.events = loop.newEvents]

normalizeSleepForDay(analysis) ==
    LET loop == NormalizeLoop(analysis.events)
    IN  [analysis EXCEPT !.events = loop.newEvents,
                         !.metrics.sleepHours = SleepMinutesForThisDay(loop.sleepSegments)]

\* Mutant: the segment ends at the event's end instead of at midnight
RECURSIVE extractPrevDaySleepSegments_RawEnd(_)
extractPrevDaySleepSegments_RawEnd(evs) ==
    IF evs = <<>> THEN <<>>
    ELSE LET ev == Head(evs)
             startM == parseTimeToMinutes(ev.startTime)
             endM == parseTimeToMinutes(ev.endTime)
             seg == IF ev.category # "sleep" THEN <<>>
                    ELSE IF startM = Null \/ endM = Null THEN <<>>
                    ELSE IF startM > endM THEN <<Segment(startM, endM)>>
                    ELSE <<>>
         IN  seg \o extractPrevDaySleepSegments_RawEnd(Tail(evs))

RECURSIVE extractPrevDaySleepSegments(_)
extractPrevDaySleepSegments(evs) ==
    IF evs = <<>> THEN <<>>
    ELSE LET ev == Head(evs)
             startM == parseTimeToMinutes(ev.startTime)
             endM == parseTimeToMinutes(ev.endTime)
             seg == IF ev.category # "sleep" THEN <<>>
                    ELSE IF startM = Null \/ endM = Null THEN <<>>
                    ELSE IF startM > endM THEN <<Segment(startM, DAY_END)>>
                    ELSE <<>>
         IN  seg \o extractPrevDaySleepSegments(Tail(evs))

getPreviousDateString(dateStr) == dateStr - 1

(***************************************************************************)
(* The day timeline's choice of the main sleep block                       *)
(***************************************************************************)
\* timeToMinutes: no text, or a field that is not a number, counts as 0; the
\* hour is not checked against 23
timeToMinutes(t) == IF t.kind = "hm" THEN t.h * 60 + t.m ELSE 0

\* normalizeEvents: the start and end of a stored event as the timeline
\* reads them
UiEvent(e) == [label |-> e.label, category |-> e.category, start |-> e.startTime, end |-> e.endTime]

\* The loop of pickMainSleep: the first block of the greatest duration
RECURSIVE PickLongest(_, _, _)
PickLongest(best, bestMinutes, sleepEvents) ==
    IF sleepEvents = <<>> THEN best
    ELSE LET e == Head(sleepEvents)
             dur == Max(0, timeToMinutes(e.end) - timeToMinutes(e.start))
         IN  IF dur > bestMinutes
             THEN PickLongest(<<e>>, dur, Tail(sleepEvents))
             ELSE PickLongest(best, bestMinutes, Tail(sleepEvents))

\* pickMainSleep: <<>> stands for null
pickMainSleep(uiEvents) ==
    PickLongest(<<>>, 0 - 1, SelectSeq(uiEvents, LAMBDA e : e.category = "sleep"))

\* groupEventsForTimeline(events).mainSleep
mainSleep(evs) == pickMainSleep([i \in DOMAIN evs |-> UiEvent(evs[i])])

(***************************************************************************)
(* What the summarizer may return                                          *)
(***************************************************************************)
Dates == 1..MaxDate

DayMetrics(productive, sleepHours) ==
    [productiveHours |-> productive, neutralHours |-> 60, wastedHours |-> 120,
     sleepHours |-> sleepHours, focusBlocks |-> 2, contextSwitches |-> 3]

DayAnalysis(date, evs, sleepHours) ==
    [date |-> date, events |-> evs, summary |-> "summary",
     metrics |-> DayMetrics(240, sleepHours)]

\* sleepHours values the summarizer proposes (minutes): none of them is a
\* duration the normaliser can compute from the times below.
ProposedSleep == {0, 300}

\* Times of the harness: midnight, early morning, wake-up, bedtime, "24:00"
\* (hour out of range), "7" (no minute field) and the empty string.
HarnessTimes == {T(0, 0), T(1, 0), T(7, 30), T(23, 0), T(24, 0), NanTime, EmptyTime}

HarnessLabels == <<"e1", "e2", "e3", "e4">>

HarnessEventsAt(i) ==
    {Event(HarnessLabels[i], "sleep", s, e) : s \in HarnessTimes, e \in HarnessTimes}
    \cup {Event(HarnessLabels[i], "productive", T(23, 0), T(1, 0)),
          Event(HarnessLabels[i], "untracked", T(1, 0), T(7, 30))}

RECURSIVE HarnessLists(_)
HarnessLists(n) ==
    IF n = 0 THEN {<<>>}
    ELSE LET shorter == HarnessLists(n - 1)
         IN  shorter \cup {Append(l, e) : l \in {x \in shorter : Len(x) = n - 1},
                                          e \in HarnessEventsAt(n)}

(***************************************************************************)
(* Normaliser harness: the two pure functions applied to a candidate day   *)
(***************************************************************************)
NormInit ==
    /\ nIn \in {DayAnalysis(MaxDate, evs, sh) : evs \in HarnessLists(MaxEvents),
                                                  sh \in ProposedSleep}
    /\ nOut = <<>>
    /\ nPrev = <<>>

Normalize ==
    /\ nOut = <<>>
    /\ nOut' = <<[analysis |-> normalizeSleepForDay(nIn),
                  sleepSegments |-> NormalizeLoop(nIn.events).sleepSegments]>>
    /\ UNCHANGED <<nIn, nPrev>>

ExtractPrev ==
    /\ nPrev = <<>>
    /\ nPrev' = <<extractPrevDaySleepSegments(nIn.events)>>
    /\ UNCHANGED <<nIn, nOut>>

(***************************************************************************)
(* The store (Supabase tables) as the routes use it                        *)
(***************************************************************************)
\* days.transcript is a json column: the ingestion writes an array, the
\* previous-day stub writes the string "".
TranscriptArray(items) == [isArray |-> TRUE, items |-> items]
TranscriptString(items) == [isArray |-> FALSE, items |-> items]

DaysByDate(dayRows, date) == {r \in dayRows : r.date = date}
DaysById(dayRows, id) == {r \in dayRows : r.id = id}
MetricsById(metricRows, id) == {r \in metricRows : r.id = id}
MetricsByDay(metricRows, dayId) == {r \in metricRows : r.day_id = dayId}
EventsOfDay(eventRows, dayId) == SelectSeq(eventRows, LAMBDA e : e.day_id = dayId)

TheRow(rows) == CHOOSE r \in rows : TRUE

\* .maybeSingle(): no row, the row, or an error when several rows match
MaybeSingleOk(rows) == Cardinality(rows) <= 1

carryLabel(thisDate) == "Sleep (carryover to " \o ToString(thisDate) \o ")"

\* existingTranscriptList, lines 442-453
ExistingTranscriptList(dayRows) ==
    IF dayRows = {} THEN <<>> ELSE TheRow(dayRows).transcript.items

(***************************************************************************)
(* Request slots                                                           *)
(***************************************************************************)
Slots == {1}
\* The recap submitted by the n-th request
Transcripts(n) == {"recap " \o ToString(n)}
NoDate == Null
NoTranscript == ""

NoAnalysis == DayAnalysis(NoDate, <<>>, 0)

IdleRq ==
    [pc |-> "idle", status |-> 0, error |-> "", authorized |-> TRUE,
     date |-> NoDate, transcript |-> NoTranscript,
     updatedTranscriptList |-> <<>>,
     rawAnalysis |-> NoAnalysis, analysis |-> NoAnalysis, lacks |-> {},
     prevSleepSegments |-> <<>>,
     prevDayId |-> NoId, prevMetricsId |-> NoId, prevMetrics |-> {},
     upsertedMetricsId |-> NoId,
     dayRow |-> [id |-> NoId, metrics_id |-> NoId], metricsRowId |-> NoId,
     dayId |-> NoId,
     pre |-> [days |-> {}, metrics |-> {}, events |-> <<>>],
     prior |-> <<>>,
     trace |-> <<>>]

Terminal == {"idle", "done", "error"}

\* The event lists the summarizer returns in the pipeline: nothing, one
\* cross-midnight sleep, a late-night work block, a main sleep with a nap.
PipelineEventLists ==
    { <<>>,
      <<Event("Sleep", "sleep", T(23, 0), T(7, 0))>>,
      <<Event("Work", "productive", T(23, 0), T(1, 0))>>,
      <<Event("Nap", "sleep", T(14, 0), T(15, 0)), Event("Sleep", "sleep", T(1, 0), T(7, 0))>> }

\* The "date" of the summarizer's JSON: the date of the prompt, or (nothing in
\* the handler compares the two) the day after it.
SummarizerDates(date) == {d \in Dates : d = date \/ d = date + 1}

SummarizerOutputs(date) ==
    {DayAnalysis(d, evs, 300) : d \in SummarizerDates(date), evs \in PipelineEventLists}

Step(op, ok) == [op |-> op, ok |-> ok]

LogEntry(r, status) ==
    [date |-> r.analysis.date, requestDate |-> r.date, status |-> status,
     prevSleepSegments |-> r.prevSleepSegments]

\* The catch block (lines 767-776), and the early returns with a status.
Respond(p, status, error) ==
    /\ rq' = [rq EXCEPT ![p].pc = IF status = 200 THEN "done" ELSE "error",
                        ![p].status = status, ![p].error = error]
    /\ log' = <<LogEntry(rq[p], status)>>

Throw(p, op) ==
    /\ rq' = [rq EXCEPT ![p].pc = "error", ![p].status = 500,
                        ![p].error = "Internal error",
                        ![p].trace = Append(@, Step(op, FALSE))]
    /\ log' = <<LogEntry(rq[p], 500)>>
    /\ UNCHANGED <<storeVars, nreq, normVars, goalVars>>

Goto(p, op, pc, r) ==
    /\ rq' = [rq EXCEPT ![p] = [r EXCEPT !.pc = pc, !.trace = Append(@, Step(op, TRUE))]]
    /\ UNCHANGED log

(***************************************************************************)
(* POST /api/analyze-day                                                   *)
(***************************************************************************)
\* Mutant: the body is not validated
Start_NoValidation(p, date, transcript) ==
    /\ rq[p].pc \in Terminal
    /\ nreq < MaxRequests
    /\ nreq' = nreq + 1
    /\ rq' = [rq EXCEPT ![p] = [IdleRq EXCEPT !.date = date, !.transcript = transcript,
                               !.pre = [days |-> days, metrics |-> metrics, events |-> events],
                               !.prior = log, !.pc = "loadDay"]]
    /\ UNCHANGED <<log, storeVars, normVars, goalVars>>

\* lines 375-378: a request that is not authorized is answered with 401
Unauthorized(p) ==
    /\ rq[p].pc \in Terminal
    /\ nreq < MaxRequests
    /\ nreq' = nreq + 1
    /\ rq' = [rq EXCEPT ![p] = [IdleRq EXCEPT !.authorized = FALSE,
                               !.pc = "error", !.status = 401, !.error = "Unauthorized",
                               !.pre = [days |-> days, metrics |-> metrics, events |-> events],
                               !.prior = log]]
    /\ UNCHANGED <<log, storeVars, normVars, goalVars>>

\* lines 400-408: the body is read and validated
Start(p, date, transcript) ==
    /\ rq[p].pc \in Terminal
    /\ nreq < MaxRequests
    /\ nreq' = nreq + 1
    /\ LET r == [IdleRq EXCEPT !.date = date, !.transcript = transcript,
                               !.pre = [days |-> days, metrics |-> metrics, events |-> events],
                               !.prior = log]
       IN  IF date = NoDate \/ transcript = NoTranscript
           THEN /\ rq' = [rq EXCEPT ![p] = [r EXCEPT !.pc = "error", !.status = 400,
                                                     !.error = "Missing date or transcript"]]
                /\ log' = <<LogEntry(r, 400)>>
           ELSE /\ rq' = [rq EXCEPT ![p] = [r EXCEPT !.pc = "loadDay"]]
                /\ UNCHANGED log
    /\ UNCHANGED <<storeVars, normVars, goalVars>>

\* lines 410-455: select the existing day, build the transcript history
LoadDay(p) ==
    /\ rq[p].pc = "loadDay"
    /\ \/ Throw(p, "selectDay")
       \/ /\ MaybeSingleOk(DaysByDate(days, rq[p].date))
          /\ LET existing == DaysByDate(days, rq[p].date)
                 r == [rq[p] EXCEPT !.updatedTranscriptList =
                          Append(ExistingTranscriptList(existing), rq[p].transcript)]
             IN  Goto(p, "selectDay", IF existing = {} THEN "summarize" ELSE "loadEvents", r)
          /\ UNCHANGED <<storeVars, nreq, normVars, goalVars>>

\* lines 457-470: the existing events, read for the summarizer's context
LoadEvents(p) ==
    /\ rq[p].pc = "loadEvents"
    /\ \/ Throw(p, "selectEvents")
       \/ /\ Goto(p, "selectEvents", "summarize", rq[p])
          /\ UNCHANGED <<storeVars, nreq, normVars, goalVars>>

\* Mutant: the previous-day patch is never run
AfterNormalize_SkipPatch(segments) == "selectUser"

\* lines 636-639: the patch runs first, and only when there is a segment
AfterNormalize(segments) ==
    IF Len(segments) > 0 THEN "prevSelectDay" ELSE "selectUser"

\* A field the summarizer's JSON lacks reads as undefined: a text column the
\* payload gives as undefined is left out of the request body.
Undefined == "undefined"
NullText == "null"

\* The sets of fields a parsed JSON may lack: none (SummarizerComplete), or
\* its summary, or its events (SummarizerLoose)
SummarizerComplete == {{}}
SummarizerLoose == {{}, {"summary"}, {"events"}}

\* JSON.parse(raw) as DayAnalysis (line 628): a cast, nothing is checked
Parsed(raw, lacks) ==
    IF "summary" \in lacks THEN [raw EXCEPT !.summary = Undefined] ELSE raw

\* lines 604-639: the summarizer call, JSON.parse, the two pure functions;
\* "for (const ev of raw.events)" throws when events is undefined (line 192)
SummarizeWith(p, outputs, lackSets) ==
    /\ rq[p].pc = "summarize"
    /\ \/ Throw(p, "openai")
       \/ /\ Respond(p, 500, "Empty completion from model")
          /\ UNCHANGED <<storeVars, nreq, normVars, goalVars>>
       \/ Throw(p, "JSON.parse")
       \/ /\ \E json \in outputs, lacks \in lackSets :
                LET raw == Parsed(json, lacks)
                    segs == extractPrevDaySleepSegments(raw.events)
                    r == [rq[p] EXCEPT !.rawAnalysis = raw, !.lacks = lacks,
                                       !.prevSleepSegments = segs,
                                       !.analysis = normalizeSleepForDay(raw)]
                IN  IF "events" \in lacks
                    THEN /\ rq' = [rq EXCEPT ![p].pc = "error", ![p].status = 500,
                                             ![p].error = "Internal error",
                                             ![p].lacks = lacks,
                                             ![p].trace = Append(@, Step("extractPrevDaySleepSegments", FALSE))]
                         /\ log' = <<LogEntry(rq[p], 500)>>
                    ELSE Goto(p, "openai", AfterNormalize(segs), r)
          /\ UNCHANGED <<storeVars, nreq, normVars, goalVars>>

Summarize(p) == SummarizeWith(p, SummarizerOutputs(rq[p].date), SummarizerComplete)

SummarizeLoose(p) == SummarizeWith(p, SummarizerOutputs(rq[p].date), SummarizerLoose)

\* Event lists with more than one night: two cross-midnight sleeps, the
\* earlier bedtime second; a sleep whose start is "24:00" beside a valid one.
WideEventLists ==
    { <<Event("Sleep", "sleep", T(23, 0), T(7, 0)), Event("Doze", "sleep", T(22, 30), T(6, 0))>>,
      <<Event("Late", "sleep", T(24, 0), T(7, 0)), Event("Sleep", "sleep", T(23, 0), T(7, 0))>> }

WideOutputs(date) == {DayAnalysis(date, evs, 300) : evs \in WideEventLists}

SummarizeWide(p) == SummarizeWith(p, WideOutputs(rq[p].date), SummarizerComplete)

\* A bedtime of 23:00 written on the 12-hour clock: a sleep from 11:00 to
\* 07:00, whose part before midnight lasts thirteen hours
LongEventLists == { <<Event("Sleep", "sleep", T(11, 0), T(7, 0))>> }

LongOutputs(date) == {DayAnalysis(date, evs, 300) : evs \in LongEventLists}

SummarizeLong(p) == SummarizeWith(p, LongOutputs(rq[p].date), SummarizerComplete)

\* The summarizer of the concurrent runs: no event, or one cross-midnight sleep
ConcEventLists == {<<>>, <<Event("Sleep", "sleep", T(23, 0), T(7, 0))>>}

ConcOutputs(date) == {DayAnalysis(date, evs, 300) : evs \in ConcEventLists}

SummarizeConc(p) == SummarizeWith(p, ConcOutputs(rq[p].date), SummarizerComplete)

(***************************************************************************)
(* applyPrevDaySleepPatch(OWNER_ID, analysis.date, prevSleepSegments)      *)
(***************************************************************************)
prevDate(r) == getPreviousDateString(r.analysis.date)

RECURSIVE SumSegments(_)
SumSegments(segments) ==
    IF segments = <<>> THEN 0
    ELSE Max(0, Head(segments).endMinutes - Head(segments).startMinutes)
         + SumSegments(Tail(segments))

\* lines 270-275 (minutes; the code divides by 60)
extraHours(segments) == SumSegments(segments)

\* lines 296-298: a null or zero sleep_hours is falsy
newSleepHours(prevMetrics, segments) ==
    (IF prevMetrics # {} /\ TheRow(prevMetrics).sleep_hours # Null
                         /\ TheRow(prevMetrics).sleep_hours # 0
     THEN TheRow(prevMetrics).sleep_hours ELSE 0)
    + extraHours(segments)

\* lines 304-312: the row handed to the metrics upsert of the previous day
PrevMetricsPayload(prevDayId, prevMetrics, segments) ==
    LET old(f) == IF prevMetrics = {} THEN Null ELSE TheRow(prevMetrics)[f]
    IN  [day_id |-> prevDayId,
         productive_hours |-> old("productive_hours"),
         neutral_hours |-> old("neutral_hours"),
         wasted_hours |-> old("wasted_hours"),
         sleep_hours |-> newSleepHours(prevMetrics, segments),
         focus_blocks |-> old("focus_blocks"),
         context_switches |-> old("context_switches")]

\* metrics.upsert(payload, {onConflict: "day_id"}): the row with that day_id
\* takes the payload's columns and keeps its id, or a new row is inserted.
MetricsRow(id, payload) ==
    [id |-> id, day_id |-> payload.day_id,
     productive_hours |-> payload.productive_hours,
     neutral_hours |-> payload.neutral_hours,
     wasted_hours |-> payload.wasted_hours,
     sleep_hours |-> payload.sleep_hours,
     focus_blocks |-> payload.focus_blocks,
     context_switches |-> payload.context_switches]

UpsertedMetricsId(payload) ==
    IF MetricsByDay(metrics, payload.day_id) # {}
    THEN TheRow(MetricsByDay(metrics, payload.day_id)).id
    ELSE nextId.metrics

UpsertMetrics(payload) ==
    IF MetricsByDay(metrics, payload.day_id) # {}
    THEN /\ metrics' = {IF m.day_id = payload.day_id THEN MetricsRow(m.id, payload) ELSE m
                        : m \in metrics}
         /\ UNCHANGED nextId
    ELSE /\ metrics' = metrics \cup {MetricsRow(nextId.metrics, payload)}
         /\ nextId' = [nextId EXCEPT !.metrics = @ + 1]

\* days.update({metrics_id}).eq("id", dayId)
LinkDayRows(dayId, metricsId) ==
    {IF d.id = dayId THEN [d EXCEPT !.metrics_id = metricsId] ELSE d : d \in days}

\* lines 352-363: the carryover event
earliestStart(segments) ==
    CHOOSE m \in {segments[i].startMinutes : i \in DOMAIN segments} :
        \A i \in DOMAIN segments : m <= segments[i].startMinutes

\* Mutant: the marker ends at the segment's end, 24:00
CarryoverEvent_EndOfDay(prevDayId, thisDate, segments) ==
    [day_id |-> prevDayId, label |-> carryLabel(thisDate), category |-> "sleep",
     start_time |-> minutesToHHMM(earliestStart(segments)),
     end_time |-> T(24, 0)]

CarryoverEvent(prevDayId, thisDate, segments) ==
    [day_id |-> prevDayId, label |-> carryLabel(thisDate), category |-> "sleep",
     start_time |-> minutesToHHMM(earliestStart(segments)),
     end_time |-> minutesToHHMM(24 * 60 - 1)]

\* Mutant: the stale marker is looked up under the previous date's label
WithoutCarryover_WrongLabel(eventRows, prevDayId, thisDate) ==
    SelectSeq(eventRows, LAMBDA e : ~(e.day_id = prevDayId
                                      /\ e.label = carryLabel(getPreviousDateString(thisDate))))

\* lines 340-346: events.delete() by day_id and label
WithoutCarryover(eventRows, prevDayId, thisDate) ==
    SelectSeq(eventRows, LAMBDA e : ~(e.day_id = prevDayId /\ e.label = carryLabel(thisDate)))

\* lines 229-243 and 265-268
PrevSelectDay(p) ==
    /\ rq[p].pc = "prevSelectDay"
    /\ \/ Throw(p, "prevSelectDay")
       \/ /\ MaybeSingleOk(DaysByDate(days, prevDate(rq[p])))
          /\ LET prevDayRow == DaysByDate(days, prevDate(rq[p]))
             IN  IF prevDayRow = {}
                 THEN Goto(p, "prevSelectDay", "prevInsertStub", rq[p])
                 ELSE LET r == [rq[p] EXCEPT !.prevDayId = TheRow(prevDayRow).id,
                                             !.prevMetricsId = TheRow(prevDayRow).metrics_id]
                      IN  Goto(p, "prevSelectDay",
                               IF r.prevMetricsId # NoId THEN "prevSelectMetrics"
                                                         ELSE "prevUpsertMetrics", r)
          /\ UNCHANGED <<storeVars, nreq, normVars, goalVars>>

\* Mutant: the stub is inserted whatever the table holds
PrevInsertStub_NoUnique(p) ==
    /\ rq[p].pc = "prevInsertStub"
    /\ days' = days \cup {[id |-> nextId.days, date |-> prevDate(rq[p]),
                           transcript |-> TranscriptString(<<>>),
                           summary |-> "null", metrics_id |-> NoId]}
    /\ nextId' = [nextId EXCEPT !.days = @ + 1]
    /\ Goto(p, "prevInsertStub", "prevUpsertMetrics",
            [rq[p] EXCEPT !.prevDayId = nextId.days, !.prevMetricsId = NoId])
    /\ UNCHANGED <<metrics, events, users, nreq, normVars, goalVars>>

\* lines 245-264: the stub row; (user_id, date) is unique in the table
PrevInsertStub(p) ==
    /\ rq[p].pc = "prevInsertStub"
    /\ \/ Throw(p, "prevInsertStub")
       \/ /\ DaysByDate(days, prevDate(rq[p])) = {}
          /\ days' = days \cup {[id |-> nextId.days, date |-> prevDate(rq[p]),
                                 transcript |-> TranscriptString(<<>>),
                                 summary |-> "null", metrics_id |-> NoId]}
          /\ nextId' = [nextId EXCEPT !.days = @ + 1]
          /\ Goto(p, "prevInsertStub", "prevUpsertMetrics",
                  [rq[p] EXCEPT !.prevDayId = nextId.days, !.prevMetricsId = NoId])
          /\ UNCHANGED <<metrics, events, users, nreq, normVars, goalVars>>

\* lines 278-294
PrevSelectMetrics(p) ==
    /\ rq[p].pc = "prevSelectMetrics"
    /\ \/ Throw(p, "prevSelectMetrics")
       \/ /\ Goto(p, "prevSelectMetrics", "prevUpsertMetrics",
                  [rq[p] EXCEPT !.prevMetrics = MetricsById(metrics, rq[p].prevMetricsId)])
          /\ UNCHANGED <<storeVars, nreq, normVars, goalVars>>

\* Mutant: the sleep hours are added to the row the table holds at the time
\* of the write
PrevUpsertMetrics_Atomic(p) ==
    /\ rq[p].pc = "prevUpsertMetrics"
    /\ \/ Throw(p, "prevUpsertMetrics")
       \/ LET payload == PrevMetricsPayload(rq[p].prevDayId,
                                            MetricsByDay(metrics, rq[p].prevDayId),
                                            rq[p].prevSleepSegments)
              id == UpsertedMetricsId(payload)
          IN  /\ UpsertMetrics(payload)
              /\ Goto(p, "prevUpsertMetrics",
                      IF rq[p].prevMetricsId = NoId \/ rq[p].prevMetricsId # id
                      THEN "prevLink" ELSE "prevDeleteCarry",
                      [rq[p] EXCEPT !.upsertedMetricsId = id])
              /\ UNCHANGED <<days, events, users, nreq, normVars, goalVars>>

\* lines 296-321
PrevUpsertMetrics(p) ==
    /\ rq[p].pc = "prevUpsertMetrics"
    /\ \/ Throw(p, "prevUpsertMetrics")
       \/ LET payload == PrevMetricsPayload(rq[p].prevDayId, rq[p].prevMetrics,
                                            rq[p].prevSleepSegments)
              id == UpsertedMetricsId(payload)
          IN  /\ UpsertMetrics(payload)
              /\ Goto(p, "prevUpsertMetrics",
                      IF rq[p].prevMetricsId = NoId \/ rq[p].prevMetricsId # id
                      THEN "prevLink" ELSE "prevDeleteCarry",
                      [rq[p] EXCEPT !.upsertedMetricsId = id])
              /\ UNCHANGED <<days, events, users, nreq, normVars, goalVars>>

\* lines 323-334
PrevLink(p) ==
    /\ rq[p].pc = "prevLink"
    /\ \/ Throw(p, "prevLink")
       \/ /\ days' = LinkDayRows(rq[p].prevDayId, rq[p].upsertedMetricsId)
          /\ Goto(p, "prevLink", "prevDeleteCarry", rq[p])
          /\ UNCHANGED <<metrics, events, users, nextId, nreq, normVars, goalVars>>

\* Mutant: a failed delete of the stale marker aborts the request
PrevDeleteCarry_Abort(p) ==
    /\ rq[p].pc = "prevDeleteCarry"
    /\ \/ Throw(p, "prevDeleteCarry")
       \/ /\ events' = WithoutCarryover(events, rq[p].prevDayId, rq[p].analysis.date)
          /\ Goto(p, "prevDeleteCarry", "prevInsertCarry", rq[p])
          /\ UNCHANGED <<days, metrics, users, nextId, nreq, normVars, goalVars>>

\* lines 340-350: a failed delete is logged and the patch goes on
PrevDeleteCarry(p) ==
    /\ rq[p].pc = "prevDeleteCarry"
    /\ \/ /\ rq' = [rq EXCEPT ![p].pc = "prevInsertCarry",
                              ![p].trace = Append(@, Step("prevDeleteCarry", FALSE))]
          /\ UNCHANGED events
       \/ /\ events' = WithoutCarryover(events, rq[p].prevDayId, rq[p].analysis.date)
          /\ Goto(p, "prevDeleteCarry", "prevInsertCarry", rq[p])
    /\ UNCHANGED <<days, metrics, users, nextId, nreq, log, normVars, goalVars>>

\* lines 352-368: a failed insert is logged and the request goes on
PrevInsertCarry(p) ==
    /\ rq[p].pc = "prevInsertCarry"
    /\ \/ /\ rq' = [rq EXCEPT ![p].pc = "selectUser",
                              ![p].trace = Append(@, Step("prevInsertCarry", FALSE))]
          /\ UNCHANGED events
       \/ /\ events' = Append(events, CarryoverEvent(rq[p].prevDayId, rq[p].analysis.date,
                                                     rq[p].prevSleepSegments))
          /\ Goto(p, "prevInsertCarry", "selectUser", rq[p])
    /\ UNCHANGED <<days, metrics, users, nextId, nreq, log, normVars, goalVars>>

(***************************************************************************)
(* POST /api/analyze-day: the writes for the day itself                    *)
(***************************************************************************)
\* lines 641-651
SelectUser(p) ==
    /\ rq[p].pc = "selectUser"
    /\ \/ Throw(p, "selectUser")
       \/ /\ Goto(p, "selectUser", IF users = {} THEN "insertUser" ELSE "upsertDay", rq[p])
          /\ UNCHANGED <<storeVars, nreq, normVars, goalVars>>

\* lines 653-665
InsertUser(p) ==
    /\ rq[p].pc = "insertUser"
    /\ \/ Throw(p, "insertUser")
       \/ /\ users = {}
          /\ users' = {"OWNER_ID"}
          /\ Goto(p, "insertUser", "upsertDay", rq[p])
          /\ UNCHANGED <<days, metrics, events, nextId, nreq, normVars, goalVars>>

\* lines 671-677: the row handed to the day upsert
DayPayload(r) ==
    [date |-> r.analysis.date,
     transcript |-> TranscriptArray(r.updatedTranscriptList),
     summary |-> r.analysis.summary]

\* The value a text column takes from an upsert: a column left out of the
\* body keeps its value in an updated row and is null in an inserted one.
Column(value, old) == IF value = Undefined THEN old ELSE value

\* Mutant: the new transcript is appended to the history the row holds at
\* the time of the write
UpsertDay_Merge(p) ==
    /\ rq[p].pc = "upsertDay"
    /\ \/ Throw(p, "upsertDay")
       \/ LET payload == DayPayload(rq[p])
              old == DaysByDate(days, payload.date)
          IN  /\ IF old # {}
                 THEN /\ days' = {IF d.date = payload.date
                                  THEN [d EXCEPT !.transcript =
                                           TranscriptArray(Append(d.transcript.items, rq[p].transcript)),
                                                 !.summary = Column(payload.summary, @)]
                                  ELSE d : d \in days}
                      /\ UNCHANGED nextId
                      /\ Goto(p, "upsertDay", "upsertMetrics",
                              [rq[p] EXCEPT !.dayRow = [id |-> TheRow(old).id,
                                                        metrics_id |-> TheRow(old).metrics_id]])
                 ELSE /\ days' = days \cup {[id |-> nextId.days, date |-> payload.date,
                                             transcript |-> payload.transcript,
                                             summary |-> Column(payload.summary, NullText),
                                             metrics_id |-> NoId]}
                      /\ nextId' = [nextId EXCEPT !.days = @ + 1]
                      /\ Goto(p, "upsertDay", "upsertMetrics",
                              [rq[p] EXCEPT !.dayRow = [id |-> nextId.days,
                                                        metrics_id |-> NoId]])
              /\ UNCHANGED <<metrics, events, users, nreq, normVars, goalVars>>

\* lines 667-686: days.upsert(payload, {onConflict: "user_id,date"})
UpsertDay(p) ==
    /\ rq[p].pc = "upsertDay"
    /\ \/ Throw(p, "upsertDay")
       \/ LET payload == DayPayload(rq[p])
              old == DaysByDate(days, payload.date)
          IN  /\ IF old # {}
                 THEN /\ days' = {IF d.date = payload.date
                                  THEN [d EXCEPT !.transcript = payload.transcript,
                                                 !.summary = Column(payload.summary, @)]
                                  ELSE d : d \in days}
                      /\ UNCHANGED nextId
                      /\ Goto(p, "upsertDay", "upsertMetrics",
                              [rq[p] EXCEPT !.dayRow = [id |-> TheRow(old).id,
                                                        metrics_id |-> TheRow(old).metrics_id]])
                 ELSE /\ days' = days \cup {[id |-> nextId.days, date |-> payload.date,
                                             transcript |-> payload.transcript,
                                             summary |-> Column(payload.summary, NullText),
                                             metrics_id |-> NoId]}
                      /\ nextId' = [nextId EXCEPT !.days = @ + 1]
                      /\ Goto(p, "upsertDay", "upsertMetrics",
                              [rq[p] EXCEPT !.dayRow = [id |-> nextId.days,
                                                        metrics_id |-> NoId]])
              /\ UNCHANGED <<metrics, events, users, nreq, normVars, goalVars>>

\* Mutant: the summarizer's sleepHours is written instead of the normalised one
DayMetricsPayload_RawSleep(r) ==
    [day_id |-> r.dayRow.id,
     productive_hours |-> r.analysis.metrics.productiveHours,
     neutral_hours |-> r.analysis.metrics.neutralHours,
     wasted_hours |-> r.analysis.metrics.wastedHours,
     sleep_hours |-> r.rawAnalysis.metrics.sleepHours,
     focus_blocks |-> r.analysis.metrics.focusBlocks,
     context_switches |-> r.analysis.metrics.contextSwitches]

\* lines 692-700: the row handed to the metrics upsert of the day
DayMetricsPayload(r) ==
    [day_id |-> r.dayRow.id,
     productive_hours |-> r.analysis.metrics.productiveHours,
     neutral_hours |-> r.analysis.metrics.neutralHours,
     wasted_hours |-> r.analysis.metrics.wastedHours,
     sleep_hours |-> r.analysis.metrics.sleepHours,
     focus_blocks |-> r.analysis.metrics.focusBlocks,
     context_switches |-> r.analysis.metrics.contextSwitches]

\* lines 688-709
UpsertDayMetrics(p) ==
    /\ rq[p].pc = "upsertMetrics"
    /\ \/ Throw(p, "upsertMetrics")
       \/ LET payload == DayMetricsPayload(rq[p])
              id == UpsertedMetricsId(payload)
          IN  /\ UpsertMetrics(payload)
              /\ Goto(p, "upsertMetrics",
                      IF rq[p].dayRow.metrics_id # id THEN "linkDay" ELSE "deleteEvents",
                      [rq[p] EXCEPT !.metricsRowId = id])
              /\ UNCHANGED <<days, events, users, nreq, normVars, goalVars>>

\* lines 711-722
LinkDay(p) ==
    /\ rq[p].pc = "linkDay"
    /\ \/ Throw(p, "linkDay")
       \/ /\ days' = LinkDayRows(rq[p].dayRow.id, rq[p].metricsRowId)
          /\ Goto(p, "linkDay", "deleteEvents", rq[p])
          /\ UNCHANGED <<metrics, events, users, nextId, nreq, normVars, goalVars>>

\* Mutant: the events already stored for the day are left in place
DeleteEvents_KeepOld(p) ==
    /\ rq[p].pc = "deleteEvents"
    /\ \/ Throw(p, "deleteEvents")
       \/ /\ UNCHANGED events
          /\ IF Len(rq[p].analysis.events) > 0
             THEN Goto(p, "deleteEvents", "insertEvents", rq[p])
             ELSE /\ rq' = [rq EXCEPT ![p].pc = "done", ![p].status = 200,
                                      ![p].trace = Append(@, Step("deleteEvents", TRUE))]
                  /\ log' = <<LogEntry(rq[p], 200)>>
          /\ UNCHANGED <<days, metrics, users, nextId, nreq, normVars, goalVars>>

\* lines 724-733, and the success response when there is nothing to insert
DeleteEvents(p) ==
    /\ rq[p].pc = "deleteEvents"
    /\ \/ Throw(p, "deleteEvents")
       \/ /\ events' = SelectSeq(events, LAMBDA e : e.day_id # rq[p].dayRow.id)
          /\ IF Len(rq[p].analysis.events) > 0
             THEN Goto(p, "deleteEvents", "insertEvents", rq[p])
             ELSE /\ rq' = [rq EXCEPT ![p].pc = "done", ![p].status = 200,
                                      ![p].trace = Append(@, Step("deleteEvents", TRUE))]
                  /\ log' = <<LogEntry(rq[p], 200)>>
          /\ UNCHANGED <<days, metrics, users, nextId, nreq, normVars, goalVars>>

\* lines 736-744: the rows of the bulk insert; "e.startTime || null" turns
\* an absent or empty time into null, which stays the time of kind "empty"
EventInserts(r) ==
    [i \in DOMAIN r.analysis.events |->
        [day_id |-> r.dayRow.id,
         label |-> r.analysis.events[i].label,
         category |-> r.analysis.events[i].category,
         start_time |-> r.analysis.events[i].startTime,
         end_time |-> r.analysis.events[i].endTime]]

\* lines 735-766
InsertEvents(p) ==
    /\ rq[p].pc = "insertEvents"
    /\ \/ Throw(p, "insertEvents")
       \/ /\ events' = events \o EventInserts(rq[p])
          /\ rq' = [rq EXCEPT ![p].pc = "done", ![p].status = 200,
                              ![p].trace = Append(@, Step("insertEvents", TRUE))]
          /\ log' = <<LogEntry(rq[p], 200)>>
          /\ UNCHANGED <<days, metrics, users, nextId, nreq, normVars, goalVars>>

(***************************************************************************)
(* GET /api/days/[id]: the response for a day id, read from the store      *)
(***************************************************************************)
GetDay(dayId) ==
    LET dayRow == TheRow(DaysById(days, dayId))
        joined == MetricsById(metrics, dayRow.metrics_id)
        nz(v) == IF v = Null THEN 0 ELSE v
        rows == EventsOfDay(events, dayId)
    IN  [id |-> dayRow.id, date |-> dayRow.date, transcript |-> dayRow.transcript,
         summary |-> dayRow.summary,
         metrics |-> IF joined = {} THEN {}
                     ELSE {[productiveHours |-> nz(TheRow(joined).productive_hours),
                            neutralHours |-> nz(TheRow(joined).neutral_hours),
                            wastedHours |-> nz(TheRow(joined).wasted_hours),
                            sleepHours |-> nz(TheRow(joined).sleep_hours),
                            focusBlocks |-> nz(TheRow(joined).focus_blocks),
                            contextSwitches |-> nz(TheRow(joined).context_switches)]},
         events |-> [i \in DOMAIN rows |->
                        Event(rows[i].label, rows[i].category,
                              rows[i].start_time, rows[i].end_time)]]

(***************************************************************************)
(* DELETE /api/days/[id]                                                   *)
(***************************************************************************)
\* The ids a DELETE may name: those of the rows the ingestions can have
\* created, and one more that no row has
DeleteIds == 1..(2 * MaxRequests - 1)

\* lines 173-186: the id comes from the path; the handler does not look at
\* the caller's authorization
StartDelete(p, id, authorized) ==
    /\ rq[p].pc \in Terminal
    /\ nreq < MaxRequests
    /\ nreq' = nreq + 1
    /\ rq' = [rq EXCEPT ![p] = [IdleRq EXCEPT !.dayId = id, !.pc = "delSelect",
                               !.authorized = authorized,
                               !.pre = [days |-> days, metrics |-> metrics, events |-> events],
                               !.prior = log]]
    /\ UNCHANGED <<log, storeVars, normVars, goalVars>>

\* An early return of the DELETE handler with a status and an error
DeleteFails(p, op, status, error) ==
    /\ rq' = [rq EXCEPT ![p].pc = "error", ![p].status = status, ![p].error = error,
                        ![p].trace = Append(@, Step(op, status = 404))]
    /\ UNCHANGED <<storeVars, nreq, log, normVars, goalVars>>

\* lines 188-209: the day is looked up by id and owner
DelSelect(p) ==
    /\ rq[p].pc = "delSelect"
    /\ \/ DeleteFails(p, "delSelect", 500, "Failed to load day")
       \/ /\ DaysById(days, rq[p].dayId) = {}
          /\ DeleteFails(p, "delSelect", 404, "Day not found")
       \/ /\ DaysById(days, rq[p].dayId) # {}
          /\ Goto(p, "delSelect", "delEvents", rq[p])
          /\ UNCHANGED <<storeVars, nreq, normVars, goalVars>>

\* lines 213-226
DelEvents(p) ==
    /\ rq[p].pc = "delEvents"
    /\ \/ DeleteFails(p, "delEvents", 500, "Failed to delete events")
       \/ /\ events' = SelectSeq(events, LAMBDA e : e.day_id # rq[p].dayId)
          /\ Goto(p, "delEvents", "delClearLink", rq[p])
          /\ UNCHANGED <<days, metrics, users, nextId, nreq, normVars, goalVars>>

\* lines 228-241
DelClearLink(p) ==
    /\ rq[p].pc = "delClearLink"
    /\ \/ DeleteFails(p, "delClearLink", 500, "Failed to clear metrics link")
       \/ /\ days' = LinkDayRows(rq[p].dayId, NoId)
          /\ Goto(p, "delClearLink", "delMetrics", rq[p])
          /\ UNCHANGED <<metrics, events, users, nextId, nreq, normVars, goalVars>>

\* Mutant: the metrics row is left behind
DelMetrics_Skip(p) ==
    /\ rq[p].pc = "delMetrics"
    /\ Goto(p, "delMetrics", "delDay", rq[p])
    /\ UNCHANGED <<storeVars, nreq, normVars, goalVars>>

\* lines 243-255
DelMetrics(p) ==
    /\ rq[p].pc = "delMetrics"
    /\ \/ DeleteFails(p, "delMetrics", 500, "Failed to delete metrics")
       \/ /\ metrics' = {m \in metrics : m.day_id # rq[p].dayId}
          /\ Goto(p, "delMetrics", "delDay", rq[p])
          /\ UNCHANGED <<days, events, users, nextId, nreq, normVars, goalVars>>

\* lines 258-273
DelDay(p) ==
    /\ rq[p].pc = "delDay"
    /\ \/ DeleteFails(p, "delDay", 500, "Failed to delete day")
       \/ /\ days' = {d \in days : d.id # rq[p].dayId}
          /\ rq' = [rq EXCEPT ![p].pc = "done", ![p].status = 200,
                              ![p].trace = Append(@, Step("delDay", TRUE))]
          /\ UNCHANGED <<metrics, events, users, nextId, nreq, log, normVars, goalVars>>

(***************************************************************************)
(* Goals: POST /api/goals, PATCH and DELETE /api/goals/[id], and the       *)
(* reorder of the goals panel                                              *)
(***************************************************************************)
MaxGoals == 3       \* goal rows inserted in one behaviour

GoalSlots == {1, 2}
GoalTerminal == {"idle", "done", "error"}
GoalTexts == {"", " ", "goal"}

IdleGq == [pc |-> "idle", status |-> 0, max |-> 0 - 1]

GoalsInit ==
    /\ goals = {}
    /\ gq = [p \in GoalSlots |-> IdleGq]
    /\ gclock = 0
    /\ pending = {}

\* String.prototype.trim on the texts of the model
Trim(text) == IF text = " " THEN "" ELSE text

\* The ORDER BY of GET /api/goals: sort_order ascending, then created_at
\* descending
Before(g, h) ==
    \/ g.sort_order < h.sort_order
    \/ g.sort_order = h.sort_order /\ g.created_at > h.created_at

RECURSIVE GetGoals(_)
GetGoals(tbl) ==
    IF tbl = {} THEN <<>>
    ELSE LET g == CHOOSE g \in tbl : \A h \in tbl \ {g} : Before(g, h)
         IN  <<g>> \o GetGoals(tbl \ {g})

\* The answer of POST /api/goals
GoalAnswer(p, status) ==
    gq' = [gq EXCEPT ![p] = [IdleGq EXCEPT !.pc = IF status = 200 THEN "done" ELSE "error",
                                          !.status = status]]

\* POST, up to the first store call: authorization and the text
PostGoal(p, authorized, text) ==
    /\ gq[p].pc \in GoalTerminal
    /\ gclock < MaxGoals
    /\ IF ~authorized THEN GoalAnswer(p, 401)
       ELSE IF Trim(text) = "" THEN GoalAnswer(p, 400)
       ELSE gq' = [gq EXCEPT ![p] = [IdleGq EXCEPT !.pc = "selectMax"]]
    /\ UNCHANGED <<goals, gclock, pending, storeVars, rq, nreq, log, normVars>>

MaxSortOrder(tbl) == CHOOSE m \in {g.sort_order : g \in tbl} : \A g \in tbl : g.sort_order <= m

\* POST: the current maximum of sort_order; the error of the query is not
\* read, and without rows the maximum is -1
SelectMax(p) ==
    /\ gq[p].pc = "selectMax"
    /\ \/ gq' = [gq EXCEPT ![p].pc = "insertGoal", ![p].max = 0 - 1]
       \/ gq' = [gq EXCEPT ![p].pc = "insertGoal",
                           ![p].max = IF goals = {} THEN 0 - 1 ELSE MaxSortOrder(goals)]
    /\ UNCHANGED <<goals, gclock, pending, storeVars, rq, nreq, log, normVars>>

\* POST: the insert with sort_order = max + 1
InsertGoal(p) ==
    /\ gq[p].pc = "insertGoal"
    /\ \/ /\ GoalAnswer(p, 500)
          /\ UNCHANGED <<goals, gclock>>
       \/ /\ goals' = goals \cup {[id |-> gclock + 1, sort_order |-> gq[p].max + 1,
                                   created_at |-> gclock + 1]}
          /\ gclock' = gclock + 1
          /\ GoalAnswer(p, 200)
    /\ UNCHANGED <<pending, storeVars, rq, nreq, log, normVars>>

\* The orders a drag can produce from the listed goals
Orders(list) ==
    {next \in [1..Len(list) -> {list[i].id : i \in 1..Len(list)}] :
        /\ \A i, j \in 1..Len(list) : next[i] = next[j] => i = j
        /\ \E i \in 1..Len(list) : next[i] # list[i].id}

\* persistOrder: one PATCH per goal, writing its index in the new order
persistOrder(next) ==
    /\ pending = {}
    /\ next \in Orders(GetGoals(goals))
    /\ pending' = {[id |-> next[i], sort_order |-> i - 1] : i \in 1..Len(next)}
    /\ UNCHANGED <<goals, gq, gclock, storeVars, rq, nreq, log, normVars>>

\* PATCH /api/goals/[id] with a sort_order: Unauthorized, or one update,
\* which fails when it errs or when no row has the id
PatchGoal(r, authorized) ==
    /\ r \in pending
    /\ pending' = pending \ {r}
    /\ \/ UNCHANGED goals
       \/ /\ authorized
          /\ \E g \in goals : g.id = r.id
          /\ goals' = {IF g.id = r.id THEN [g EXCEPT !.sort_order = r.sort_order] ELSE g : g \in goals}
    /\ UNCHANGED <<gq, gclock, storeVars, rq, nreq, log, normVars>>

\* DELETE /api/goals/[id]: Unauthorized, or one delete by id and owner
DeleteGoal(id, authorized) ==
    /\ authorized
    /\ goals' = {g \in goals : g.id # id}
    /\ UNCHANGED <<gq, gclock, pending, storeVars, rq, nreq, log, normVars>>

(***************************************************************************)
(* Specifications                                                          *)
(***************************************************************************)
StoreInit ==
    /\ days = {}
    /\ metrics = {}
    /\ events = <<>>
    /\ users = {}
    /\ nextId = [days |-> 1, metrics |-> 1]
    /\ rq = [p \in Slots |-> IdleRq]
    /\ nreq = 0
    /\ log = <<>>
    /\ GoalsInit

\* Spec: the ingestion pipeline, requests one after the other
Init ==
    /\ StoreInit
    /\ nIn = NoAnalysis
    /\ nOut = <<>>
    /\ nPrev = <<>>

Next ==
    \E p \in Slots :
        \/ \E date \in Dates \cup {NoDate}, transcript \in Transcripts(nreq + 1) \cup {NoTranscript} :
              Start(p, date, transcript)
        \/ LoadDay(p)
        \/ LoadEvents(p)
        \/ Summarize(p)
        \/ PrevSelectDay(p)
        \/ PrevInsertStub(p)
        \/ PrevSelectMetrics(p)
        \/ PrevUpsertMetrics(p)
        \/ PrevLink(p)
        \/ PrevDeleteCarry(p)
        \/ PrevInsertCarry(p)
        \/ SelectUser(p)
        \/ InsertUser(p)
        \/ UpsertDay(p)
        \/ UpsertDayMetrics(p)
        \/ LinkDay(p)
        \/ DeleteEvents(p)
        \/ InsertEvents(p)

Spec == Init /\ [][Next]_vars

\* SpecLoose: the pipeline with a summarizer whose JSON may lack a field
NextLoose ==
    \E p \in Slots :
        \/ \E date \in Dates, transcript \in Transcripts(nreq + 1) :
              Start(p, date, transcript)
        \/ LoadDay(p)
        \/ LoadEvents(p)
        \/ SummarizeLoose(p)
        \/ PrevSelectDay(p)
        \/ PrevInsertStub(p)
        \/ PrevSelectMetrics(p)
        \/ PrevUpsertMetrics(p)
        \/ PrevLink(p)
        \/ PrevDeleteCarry(p)
        \/ PrevInsertCarry(p)
        \/ SelectUser(p)
        \/ InsertUser(p)
        \/ UpsertDay(p)
        \/ UpsertDayMetrics(p)
        \/ LinkDay(p)
        \/ DeleteEvents(p)
        \/ InsertEvents(p)

SpecLoose == Init /\ [][NextLoose]_vars

\* SpecWide: the pipeline with the event lists of WideEventLists
NextWide ==
    \E p \in Slots :
        \/ \E date \in Dates, transcript \in Transcripts(nreq + 1) :
              Start(p, date, transcript)
        \/ LoadDay(p)
        \/ LoadEvents(p)
        \/ SummarizeWide(p)
        \/ PrevSelectDay(p)
        \/ PrevInsertStub(p)
        \/ PrevSelectMetrics(p)
        \/ PrevUpsertMetrics(p)
        \/ PrevLink(p)
        \/ PrevDeleteCarry(p)
        \/ PrevInsertCarry(p)
        \/ SelectUser(p)
        \/ InsertUser(p)
        \/ UpsertDay(p)
        \/ UpsertDayMetrics(p)
        \/ LinkDay(p)
        \/ DeleteEvents(p)
        \/ InsertEvents(p)

SpecWide == Init /\ [][NextWide]_vars

\* SpecLong: the pipeline with the event list of LongEventLists
NextLong ==
    \E p \in Slots :
        \/ \E date \in Dates, transcript \in Transcripts(nreq + 1) :
              Start(p, date, transcript)
        \/ LoadDay(p)
        \/ LoadEvents(p)
        \/ SummarizeLong(p)
        \/ PrevSelectDay(p)
        \/ PrevInsertStub(p)
        \/ PrevSelectMetrics(p)
        \/ PrevUpsertMetrics(p)
        \/ PrevLink(p)
        \/ PrevDeleteCarry(p)
        \/ PrevInsertCarry(p)
        \/ SelectUser(p)
        \/ InsertUser(p)
        \/ UpsertDay(p)
        \/ UpsertDayMetrics(p)
        \/ LinkDay(p)
        \/ DeleteEvents(p)
        \/ InsertEvents(p)

SpecLong == Init /\ [][NextLong]_vars

\* SpecConc: two requests in flight at once, their store calls interleaved;
\* the handler takes no lock, each awaited store call is one step.
ConcSlots == {1, 2}

\* The dates the two requests name: the last date and the day before it
ConcDates == {MaxDate - 1, MaxDate}

InitConc ==
    /\ days = {}
    /\ metrics = {}
    /\ events = <<>>
    /\ users = {}
    /\ nextId = [days |-> 1, metrics |-> 1]
    /\ rq = [p \in ConcSlots |-> IdleRq]
    /\ nreq = 0
    /\ log = <<>>
    /\ GoalsInit
    /\ nIn = NoAnalysis
    /\ nOut = <<>>
    /\ nPrev = <<>>

NextConc ==
    \E p \in ConcSlots :
        \/ \E date \in ConcDates, transcript \in Transcripts(nreq + 1) :
              /\ p = nreq + 1
              /\ Start(p, date, transcript)
        \/ LoadDay(p)
        \/ LoadEvents(p)
        \/ SummarizeConc(p)
        \/ PrevSelectDay(p)
        \/ PrevInsertStub(p)
        \/ PrevSelectMetrics(p)
        \/ PrevUpsertMetrics(p)
        \/ PrevLink(p)
        \/ PrevDeleteCarry(p)
        \/ PrevInsertCarry(p)
        \/ SelectUser(p)
        \/ InsertUser(p)
        \/ UpsertDay(p)
        \/ UpsertDayMetrics(p)
        \/ LinkDay(p)
        \/ DeleteEvents(p)
        \/ InsertEvents(p)

SpecConc == InitConc /\ [][NextConc]_vars

\* SpecDelete: ingestions and deletions of days, one request after the other
NextDelete ==
    \E p \in Slots :
        \/ \E date \in Dates \cup {NoDate}, transcript \in Transcripts(nreq + 1) \cup {NoTranscript} :
              Start(p, date, transcript)
        \/ LoadDay(p)
        \/ LoadEvents(p)
        \/ SummarizeConc(p)
        \/ PrevSelectDay(p)
        \/ PrevInsertStub(p)
        \/ PrevSelectMetrics(p)
        \/ PrevUpsertMetrics(p)
        \/ PrevLink(p)
        \/ PrevDeleteCarry(p)
        \/ PrevInsertCarry(p)
        \/ SelectUser(p)
        \/ InsertUser(p)
        \/ UpsertDay(p)
        \/ UpsertDayMetrics(p)
        \/ LinkDay(p)
        \/ DeleteEvents(p)
        \/ InsertEvents(p)
        \/ \E id \in DeleteIds, authorized \in BOOLEAN : StartDelete(p, id, authorized)
        \/ Unauthorized(p)
        \/ DelSelect(p)
        \/ DelEvents(p)
        \/ DelClearLink(p)
        \/ DelMetrics(p)
        \/ DelDay(p)

SpecDelete == Init /\ [][NextDelete]_vars

\* SpecGoals: creations, deletions and reorders of goals; two requests may
\* overlap
NextGoals ==
    \/ \E p \in GoalSlots :
          \/ \E authorized \in BOOLEAN, text \in GoalTexts : PostGoal(p, authorized, text)
          \/ SelectMax(p)
          \/ InsertGoal(p)
    \/ \E r \in pending, authorized \in BOOLEAN : PatchGoal(r, authorized)
    \/ \E g \in goals, authorized \in BOOLEAN : DeleteGoal(g.id, authorized)
    \/ \E next \in Orders(GetGoals(goals)) : persistOrder(next)

SpecGoals == Init /\ [][NextGoals]_vars

\* SpecNorm: the normaliser and the previous-day extraction on their own
InitNorm == StoreInit /\ NormInit

NextNorm ==
    \/ Normalize /\ UNCHANGED <<storeVars, rq, nreq, log, goalVars>>
    \/ ExtractPrev /\ UNCHANGED <<storeVars, rq, nreq, log, goalVars>>

SpecNorm == InitNorm /\ [][NextNorm]_vars

(***************************************************************************)
(* Properties of the normaliser (checked under SpecNorm)                   *)
(***************************************************************************)
StartOf(ev) == parseTimeToMinutes(ev.startTime)
EndOf(ev) == parseTimeToMinutes(ev.endTime)
ValidSleep(ev) == ev.category = "sleep" /\ StartOf(ev) # Null /\ EndOf(ev) # Null
CrossMidnight(ev) == ValidSleep(ev) /\ StartOf(ev) > EndOf(ev)

InEvents == {nIn.events[i] : i \in DOMAIN nIn.events}
OutEvents == {nOut[1].analysis.events[i] : i \in DOMAIN nOut[1].analysis.events}
OutSegments == nOut[1].sleepSegments
OutSleep == nOut[1].analysis.metrics.sleepHours
PrevSegments == nPrev[1]

\* D's list holds the event ev with these start and end minutes
KeptAs(ev, startM, endM) ==
    \E o \in OutEvents : /\ o.label = ev.label
                         /\ o.category = ev.category
                         /\ StartOf(o) = startM
                         /\ EndOf(o) = endM

DroppedFromDay(ev) == \A o \in OutEvents : o.label # ev.label

HasSegment(segs, startM, endM) ==
    \E j \in DOMAIN segs : segs[j] = Segment(startM, endM)

\* C4 as stated: every valid cross-midnight sleep event yields a D-event
\* 00:00-end, one previous-day segment [start, 1440), and D's list never
\* holds the part before midnight.
Orig_C4 ==
    (nOut # <<>> /\ nPrev # <<>>) =>
        /\ \A ev \in InEvents : CrossMidnight(ev) =>
              /\ KeptAs(ev, 0, EndOf(ev))
              /\ HasSegment(PrevSegments, StartOf(ev), 1440)
              /\ \A o \in OutEvents : o.label = ev.label => StartOf(o) = 0
        /\ Len(PrevSegments) = Cardinality({i \in DOMAIN nIn.events : CrossMidnight(nIn.events[i])})

\* C4 amended: a valid cross-midnight sleep event that ends after 00:00 yields
\* the D-event 00:00-end; one that ends at 00:00 yields no D-event at all; in
\* both cases there is one previous-day segment [start, 1440), and the part
\* before midnight is never in D's list.
Thm_C4 ==
    (nOut # <<>> /\ nPrev # <<>>) =>
        /\ \A ev \in InEvents : CrossMidnight(ev) =>
              /\ EndOf(ev) > 0 => KeptAs(ev, 0, EndOf(ev))
              /\ EndOf(ev) = 0 => DroppedFromDay(ev)
              /\ HasSegment(PrevSegments, StartOf(ev), 1440)
              /\ \A o \in OutEvents : o.label = ev.label => StartOf(o) = 0
        /\ Len(PrevSegments) = Cardinality({i \in DOMAIN nIn.events : CrossMidnight(nIn.events[i])})

Wit_C4 ==
    /\ nOut # <<>>
    /\ nPrev # <<>>
    /\ \E ev \in InEvents : /\ CrossMidnight(ev)
                            /\ EndOf(ev) > 0
                            /\ KeptAs(ev, 0, EndOf(ev))
                            /\ HasSegment(PrevSegments, StartOf(ev), 1440)

\* C5 as stated: every valid sleep event with start <= end (start = end
\* included) stays in D's list with the same minutes and is a same-day
\* segment candidate.
Orig_C5 ==
    nOut # <<>> =>
        \A ev \in InEvents : (ValidSleep(ev) /\ StartOf(ev) <= EndOf(ev)) =>
            /\ KeptAs(ev, StartOf(ev), EndOf(ev))
            /\ HasSegment(OutSegments, StartOf(ev), EndOf(ev))

\* C5 amended: every valid sleep event with start < end stays in D's list
\* with the same minutes and is a same-day segment candidate; one with
\* start = end is dropped from D's list and is no candidate.
Thm_C5 ==
    nOut # <<>> =>
        /\ \A ev \in InEvents : (ValidSleep(ev) /\ StartOf(ev) < EndOf(ev)) =>
              /\ KeptAs(ev, StartOf(ev), EndOf(ev))
              /\ HasSegment(OutSegments, StartOf(ev), EndOf(ev))
        /\ \A ev \in InEvents : (ValidSleep(ev) /\ StartOf(ev) = EndOf(ev)) =>
              /\ DroppedFromDay(ev)
              /\ ~HasSegment(OutSegments, StartOf(ev), EndOf(ev))

Wit_C5 ==
    /\ nOut # <<>>
    /\ \E ev \in InEvents : /\ ValidSleep(ev)
                            /\ 0 < StartOf(ev)
                            /\ StartOf(ev) < EndOf(ev)
                            /\ EndOf(ev) % 60 # 0
                            /\ KeptAs(ev, StartOf(ev), EndOf(ev))

\* Every ordering of a list
Orderings(list) ==
    LET D == DOMAIN list
    IN  {[i \in D |-> list[f[i]]] :
            f \in {g \in [D -> D] : \A i, j \in D : i # j => g[i] # g[j]}}

MinEnd(segs) ==
    CHOOSE m \in {segs[j].endMinutes : j \in DOMAIN segs} :
        \A j \in DOMAIN segs : m <= segs[j].endMinutes

EarliestEnding(segs) == {j \in DOMAIN segs : segs[j].endMinutes = MinEnd(segs)}

FirstEarliestEnding(segs) ==
    CHOOSE j \in EarliestEnding(segs) : \A k \in EarliestEnding(segs) : j <= k

SameForEveryOrdering ==
    \A list \in Orderings(nIn.events) :
        normalizeSleepForDay([nIn EXCEPT !.events = list]).metrics.sleepHours = OutSleep

\* C6 as stated: with several candidates, sleepHours is the duration of a
\* candidate with the earliest end, and every ordering of the events gives
\* the same sleepHours, ties in the end time included.
Orig_C6 ==
    (nOut # <<>> /\ Len(OutSegments) >= 2) =>
        /\ \E j \in EarliestEnding(OutSegments) :
              OutSleep = OutSegments[j].endMinutes - OutSegments[j].startMinutes
        /\ SameForEveryOrdering

\* C6 amended: with several candidates, sleepHours is the duration of the
\* first listed candidate among those with the earliest end; every ordering
\* gives the same sleepHours when the candidates with the earliest end all
\* have the same start (in particular when there is only one).
Thm_C6 ==
    (nOut # <<>> /\ Len(OutSegments) >= 2) =>
        /\ LET j == FirstEarliestEnding(OutSegments)
           IN  OutSleep = OutSegments[j].endMinutes - OutSegments[j].startMinutes
        /\ (\A j, k \in EarliestEnding(OutSegments) :
                OutSegments[j].startMinutes = OutSegments[k].startMinutes)
              => SameForEveryOrdering

Wit_C6 ==
    /\ nOut # <<>>
    /\ Len(OutSegments) >= 2
    /\ Cardinality(EarliestEnding(OutSegments)) = 1
    /\ FirstEarliestEnding(OutSegments) > 1
    /\ OutSleep = 60

\* No sleep event of the list has a valid, non-empty part in the day
NoValidSegment(evs) ==
    \A i \in DOMAIN evs :
        evs[i].category = "sleep" =>
            \/ ~ValidSleep(evs[i])
            \/ StartOf(evs[i]) = EndOf(evs[i])
            \/ (StartOf(evs[i]) > EndOf(evs[i]) /\ EndOf(evs[i]) = 0)

\* C7: when the candidate day has no valid sleep segment, the normalised
\* sleepHours is 0 whatever the summarizer proposed.
Thm_C7 ==
    (nOut # <<>> /\ NoValidSegment(nIn.events)) => OutSleep = 0

Wit_C7 ==
    /\ nOut # <<>>
    /\ NoValidSegment(nIn.events)
    /\ nIn.metrics.sleepHours = 300
    /\ \E ev \in InEvents : ev.category = "sleep" /\ ~ValidSleep(ev)
    /\ OutSleep = 0

(***************************************************************************)
(* Properties of the ingestion pipeline (checked under Spec)               *)
(*                                                                         *)
(* "The date D of an ingestion" is the date the handler works on after the *)
(* summarizer call, analysis.date: it is the thisDate of the patch and the *)
(* key of the day upsert.                                                  *)
(***************************************************************************)
Now == [days |-> days, metrics |-> metrics, events |-> events]

DayIds(st, date) == {d.id : d \in DaysByDate(st.days, date)}

\* The Day, Metrics and Events stored for a date
DayView(st, date) ==
    [days |-> DaysByDate(st.days, date),
     metrics |-> {m \in st.metrics : m.day_id \in DayIds(st, date)},
     events |-> SelectSeq(st.events, LAMBDA e : e.day_id \in DayIds(st, date))]

SleepOf(st, date) == {m.sleep_hours : m \in DayView(st, date).metrics}

CarryCount(st, date) ==
    Len(SelectSeq(DayView(st, getPreviousDateString(date)).events,
                  LAMBDA e : e.label = carryLabel(date)))

Did(r, op) == \E i \in DOMAIN r.trace : r.trace[i] = Step(op, TRUE)
Failed(r, op) == \E i \in DOMAIN r.trace : r.trace[i] = Step(op, FALSE)
Patching(r) == Len(r.prevSleepSegments) > 0

\* C1: a request for date D that ends in an error leaves the Day, Metrics
\* and Events of D and of D-1 exactly as they were before the request.
Orig_C1 ==
    \A p \in Slots :
        (/\ rq[p].pc = "error"
         /\ rq[p].date # NoDate
         /\ rq[p].analysis.date \in {NoDate, rq[p].date})
        => /\ DayView(Now, rq[p].date) = DayView(rq[p].pre, rq[p].date)
           /\ DayView(Now, rq[p].date - 1) = DayView(rq[p].pre, rq[p].date - 1)

\* C2: a second successful ingestion of D straight after a first one, with
\* the same cross-midnight sleep, leaves D-1's sleep hours as the first
\* ingestion left them.
Orig_C2 ==
    \A p \in Slots :
        (/\ rq[p].pc = "done"
         /\ Patching(rq[p])
         /\ rq[p].analysis.date = rq[p].date
         /\ rq[p].prior = <<[date |-> rq[p].date, requestDate |-> rq[p].date,
                              status |-> 200,
                              prevSleepSegments |-> rq[p].prevSleepSegments]>>)
        => SleepOf(Now, rq[p].date - 1) = SleepOf(rq[p].pre, rq[p].date - 1)

\* C3 as stated: after a successful ingestion of D that yields a
\* cross-midnight sleep, D-1 holds exactly one event labelled
\* "Sleep (carryover to D)".
Orig_C3 ==
    \A p \in Slots :
        (rq[p].pc = "done" /\ Patching(rq[p]))
        => CarryCount(Now, rq[p].analysis.date) = 1

\* C3 amended: after a successful ingestion of D that yields a cross-midnight
\* sleep, D-1 holds exactly one event labelled "Sleep (carryover to D)" when
\* the delete and the insert of the marker both succeeded; a failed delete
\* (logged only) leaves the markers that were there, a failed insert (logged
\* only) adds none.
Thm_C3 ==
    \A p \in Slots :
        (rq[p].pc = "done" /\ Patching(rq[p]))
        => CarryCount(Now, rq[p].analysis.date)
             = (IF Did(rq[p], "prevDeleteCarry") THEN 0
                ELSE CarryCount(rq[p].pre, rq[p].analysis.date))
               + (IF Did(rq[p], "prevInsertCarry") THEN 1 ELSE 0)

Wit_C3 ==
    \E p \in Slots :
        /\ rq[p].pc = "done"
        /\ Patching(rq[p])
        /\ CarryCount(rq[p].pre, rq[p].analysis.date) = 1
        /\ Did(rq[p], "prevDeleteCarry")
        /\ Did(rq[p], "prevInsertCarry")
        /\ CarryCount(Now, rq[p].analysis.date) = 1

\* C8: after a successful ingestion of D, every event fetched for D has
\* start <= end, whatever its category.
Orig_C8 ==
    \A p \in Slots :
        rq[p].pc = "done" =>
            LET fetched == GetDay(rq[p].dayRow.id).events
            IN  \A i \in DOMAIN fetched :
                    (StartOf(fetched[i]) # Null /\ EndOf(fetched[i]) # Null)
                    => StartOf(fetched[i]) <= EndOf(fetched[i])

\* C9: after a successful ingestion of D, the sleep hours of D's Metrics row,
\* and those a fetch of D returns, are the value the normaliser computed in
\* this request.
Thm_C9 ==
    \A p \in Slots :
        rq[p].pc = "done" =>
            /\ DaysByDate(days, rq[p].analysis.date) = DaysById(days, rq[p].dayRow.id)
            /\ SleepOf(Now, rq[p].analysis.date) = {rq[p].analysis.metrics.sleepHours}
            /\ GetDay(rq[p].dayRow.id).metrics # {}
            /\ \A m \in GetDay(rq[p].dayRow.id).metrics :
                  m.sleepHours = rq[p].analysis.metrics.sleepHours

Wit_C9 ==
    \E p \in Slots :
        /\ rq[p].pc = "done"
        /\ rq[p].rawAnalysis.metrics.sleepHours = 300
        /\ rq[p].analysis.metrics.sleepHours = 420
        /\ SleepOf(Now, rq[p].analysis.date) = {420}

DayWrites == {"upsertDay", "upsertMetrics", "linkDay", "deleteEvents", "insertEvents"}
PatchWrites == {"prevInsertStub", "prevUpsertMetrics", "prevLink", "prevInsertCarry"}
PatchFatal == {"prevSelectDay", "prevInsertStub", "prevSelectMetrics",
               "prevUpsertMetrics", "prevLink"}
PatchOps == PatchFatal \cup {"prevDeleteCarry", "prevInsertCarry"}

LastStep(r) == r.trace[Len(r.trace)]

\* C10 as stated: when a write to D is issued, every write of the patch
\* (stub, metrics, link, carryover event) has succeeded before it; a request
\* in which a patch write failed writes nothing to D.
Orig_C10 ==
    \A p \in Slots :
        LET t == rq[p].trace
        IN  /\ \A j \in DOMAIN t : t[j].op \in DayWrites =>
                  /\ \A i \in 1..(j - 1) : t[i].op \in PatchWrites => t[i].ok
                  /\ Patching(rq[p]) =>
                        /\ \E i \in 1..(j - 1) : t[i] = Step("prevUpsertMetrics", TRUE)
                        /\ \E i \in 1..(j - 1) : t[i] = Step("prevInsertCarry", TRUE)
                  /\ \A i \in DOMAIN t : t[i].op \in PatchOps => i < j
            /\ (\E i \in DOMAIN t : t[i].op \in PatchWrites /\ ~t[i].ok)
                  => DayView(Now, rq[p].analysis.date)
                       = DayView(rq[p].pre, rq[p].analysis.date)

\* C10 amended: when a write to D is issued, the patch is over: its stub,
\* metrics and link writes have succeeded and the delete and the insert of
\* the carryover event have been issued (either may have failed, which is
\* logged only); a request in which the stub, metrics or link step failed
\* writes nothing to D.
Thm_C10 ==
    \A p \in Slots :
        LET t == rq[p].trace
        IN  /\ \A j \in DOMAIN t : t[j].op \in DayWrites =>
                  /\ \A i \in 1..(j - 1) : t[i].op \in PatchFatal => t[i].ok
                  /\ Patching(rq[p]) =>
                        /\ \E i \in 1..(j - 1) : t[i] = Step("prevUpsertMetrics", TRUE)
                        /\ \E i \in 1..(j - 1) : t[i].op = "prevDeleteCarry"
                        /\ \E i \in 1..(j - 1) : t[i].op = "prevInsertCarry"
                  /\ \A i \in DOMAIN t : t[i].op \in PatchOps => i < j
            /\ (\E i \in DOMAIN t : t[i].op \in PatchFatal /\ ~t[i].ok)
                  => DayView(Now, rq[p].analysis.date)
                       = DayView(rq[p].pre, rq[p].analysis.date)

Wit_C10 ==
    \E p \in Slots :
        /\ rq[p].pc = "done"
        /\ Patching(rq[p])
        /\ Did(rq[p], "prevInsertStub")
        /\ Did(rq[p], "prevLink")
        /\ Did(rq[p], "prevInsertCarry")
        /\ Did(rq[p], "insertEvents")

\* The request is a DELETE of a day (an ingestion names no day id)
Deleting(r) == r.dayId # NoId

SummarizerFailed(r) ==
    \/ r.error = "Empty completion from model"
    \/ Failed(r, "openai")
    \/ Failed(r, "JSON.parse")

\* C11: an authorized request without date or transcript ends with status
\* 400, a request whose summarizer call fails, returns nothing or returns
\* text that is not JSON ends with status 500, and in both cases no Day,
\* Metrics or Event row has been written.
Thm_C11 ==
    \A p \in Slots :
        /\ (rq[p].pc # "idle" /\ ~Deleting(rq[p]) /\ rq[p].authorized
            /\ (rq[p].date = NoDate \/ rq[p].transcript = NoTranscript))
              => /\ rq[p].pc = "error"
                 /\ rq[p].status = 400
                 /\ Now = rq[p].pre
        /\ (rq[p].pc \notin {"idle", "loadDay", "loadEvents", "summarize"}
            /\ ~Deleting(rq[p]) /\ SummarizerFailed(rq[p]))
              => /\ rq[p].pc = "error"
                 /\ rq[p].status = 500
                 /\ Now = rq[p].pre

Wit_C11 ==
    \E p \in Slots :
        /\ rq[p].pc = "error"
        /\ Failed(rq[p], "JSON.parse")
        /\ days # {}
        /\ events # <<>>
        /\ Now = rq[p].pre

Lacking(r) == r.pc \notin {"idle", "loadDay", "loadEvents", "summarize"} /\ r.lacks # {}

\* C12: when the summarizer's JSON lacks a required field the request fails
\* and nothing has been written to the day or to the day before it.
Orig_C12 ==
    \A p \in Slots :
        Lacking(rq[p]) => /\ rq[p].pc # "done"
                          /\ Now = rq[p].pre

RECURSIVE CarriedMinutes(_)
CarriedMinutes(segments) ==
    IF segments = <<>> THEN 0
    ELSE (DAY_END - Head(segments).startMinutes) + CarriedMinutes(Tail(segments))

OtherMetrics(m) ==
    <<m.productive_hours, m.neutral_hours, m.wasted_hours, m.focus_blocks, m.context_switches>>

ExistingSleep(rows) ==
    IF rows = {} \/ TheRow(rows).sleep_hours = Null THEN 0 ELSE TheRow(rows).sleep_hours

\* C13: once the previous-day patch has written D-1's metrics, D-1's sleep
\* hours are what they were before the request plus the sum of (1440 - start)
\* over the previous-day segments, and D-1's other metrics are what they were.
Orig_C13 ==
    \A p \in Slots :
        Did(rq[p], "prevUpsertMetrics") =>
            LET before == DayView(rq[p].pre, prevDate(rq[p])).metrics
                after == DayView(Now, prevDate(rq[p])).metrics
            IN  /\ after # {}
                /\ \A a \in after :
                      a.sleep_hours = ExistingSleep(before) + CarriedMinutes(rq[p].prevSleepSegments)
                /\ \A b \in before, a \in after : OtherMetrics(a) = OtherMetrics(b)

Below24(t) == t.kind = "hm" /\ t.h \in 0..23 /\ t.m \in 0..59

CrossStarts(evs) == {StartOf(evs[i]) : i \in {j \in DOMAIN evs : CrossMidnight(evs[j])}}

CarryRows(r) ==
    SelectSeq(events, LAMBDA e : e.day_id = r.prevDayId /\ e.label = carryLabel(r.analysis.date))

IsCarryLabel(label) == \E d \in 1..(MaxDate + 1) : label = carryLabel(d)

\* C14: the carryover event the patch writes on D-1 has category sleep, its
\* start is the earliest start among the cross-midnight sleeps of the
\* summarizer's list and its end is 23:59; every time the normaliser rewrote
\* and every time of a stored carryover event is below 24:00.
Thm_C14 ==
    /\ \A p \in Slots :
          Did(rq[p], "prevInsertCarry") =>
              LET rows == CarryRows(rq[p])
                  written == rows[Len(rows)]
              IN  /\ rows # <<>>
                  /\ written.category = "sleep"
                  /\ parseTimeToMinutes(written.start_time) \in CrossStarts(rq[p].rawAnalysis.events)
                  /\ \A m \in CrossStarts(rq[p].rawAnalysis.events) :
                        parseTimeToMinutes(written.start_time) <= m
                  /\ written.end_time = T(23, 59)
    /\ \A p \in Slots : \A i \in DOMAIN rq[p].analysis.events :
          LET ev == rq[p].analysis.events[i]
          IN  \/ \E j \in DOMAIN rq[p].rawAnalysis.events : rq[p].rawAnalysis.events[j] = ev
              \/ Below24(ev.startTime) /\ Below24(ev.endTime)
    /\ \A i \in DOMAIN events :
          IsCarryLabel(events[i].label) => Below24(events[i].start_time) /\ Below24(events[i].end_time)

Wit_C14 ==
    \E p \in Slots :
        /\ Did(rq[p], "prevInsertCarry")
        /\ Len(rq[p].prevSleepSegments) = 2
        /\ CarryRows(rq[p])[Len(CarryRows(rq[p]))].start_time = T(22, 30)
        /\ rq[p].pc = "done"

OneDayPerDate == \A d1 \in days, d2 \in days : d1.date = d2.date => d1 = d2

\* A step neither removes a Day row nor changes the date a row is stored for
DaysKept == \A d \in days : \E e \in days' : e.id = d.id /\ e.date = d.date

\* C15: in every reachable state of interleaved ingestions and previous-day
\* patches the store holds at most one Day row per date, and every step that
\* writes for a date already stored keeps that row (same id, same date).
Thm_C15 == []OneDayPerDate /\ [][DaysKept]_vars

\* Both requests found no D-1 and went on to insert the stub; the second
\* insert failed, the first request went on to write D.
Wit_C15 ==
    /\ Did(rq[1], "prevInsertStub") /\ Failed(rq[2], "prevInsertStub")
    /\ rq[1].analysis.date = rq[2].analysis.date
    /\ Did(rq[1], "upsertDay")
    /\ DaysByDate(days, prevDate(rq[1])) # {}

\* The transcript history stored for a date
HistoryOf(st, date) ==
    IF DaysByDate(st.days, date) = {} THEN <<>>
    ELSE TheRow(DaysByDate(st.days, date)).transcript.items

\* C16: the history stored for a date is the list of the transcripts of the
\* successful ingestions for that date, in order: a successful ingestion for
\* date D leaves D's history as it was with its transcript appended and
\* answers with that list, and a failed one leaves D's history as it was.
Orig_C16 ==
    \A p \in Slots :
        /\ rq[p].pc = "done" =>
              /\ HistoryOf(Now, rq[p].date) = Append(HistoryOf(rq[p].pre, rq[p].date), rq[p].transcript)
              /\ rq[p].updatedTranscriptList = HistoryOf(Now, rq[p].date)
        /\ (rq[p].pc = "error" /\ rq[p].date # NoDate) =>
              HistoryOf(Now, rq[p].date) = HistoryOf(rq[p].pre, rq[p].date)

\* The events stored for a date, as label, category, start and end
StoredEvents(st, date) ==
    LET rows == DayView(st, date).events
    IN  [i \in DOMAIN rows |->
            Event(rows[i].label, rows[i].category, rows[i].start_time, rows[i].end_time)]

\* C17: after a successful ingestion for date D the events stored for D are
\* exactly the normalised event list of this ingestion, in its order.
Thm_C17 ==
    \A p \in Slots :
        rq[p].pc = "done" =>
            /\ StoredEvents(Now, rq[p].analysis.date) = rq[p].analysis.events
            /\ rq[p].analysis.events = normalizeSleepForDay(rq[p].rawAnalysis).events

Wit_C17 ==
    \E p \in Slots :
        /\ rq[p].pc = "done"
        /\ StoredEvents(rq[p].pre, rq[p].analysis.date) # <<>>
        /\ rq[p].analysis.events # <<>>
        /\ StoredEvents(rq[p].pre, rq[p].analysis.date) # rq[p].analysis.events

\* A sleep event one of whose times is not an hour 0-23 and a minute 0-59
MalformedSleep(ev) ==
    ev.category = "sleep" /\ ~(Below24(ev.startTime) /\ Below24(ev.endTime))

WithoutMalformed(evs) == SelectSeq(evs, LAMBDA ev : ~MalformedSleep(ev))

\* C18: a sleep event with a malformed start or end time is in D's event
\* list as it came, and the same-day segments, the sleepHours and the
\* previous-day segments are what they are for the list without it.
Thm_C18 ==
    /\ nOut # <<>> =>
          /\ \A ev \in InEvents : MalformedSleep(ev) => ev \in OutEvents
          /\ OutSegments = NormalizeLoop(WithoutMalformed(nIn.events)).sleepSegments
          /\ Len(OutSegments) <= Cardinality({i \in DOMAIN nIn.events :
                                                nIn.events[i].category = "sleep"
                                                /\ ~MalformedSleep(nIn.events[i])})
          /\ OutSleep = SleepMinutesForThisDay(OutSegments)
    /\ nPrev # <<>> =>
          /\ PrevSegments = extractPrevDaySleepSegments(WithoutMalformed(nIn.events))
          /\ Len(PrevSegments) <= Cardinality({i \in DOMAIN nIn.events :
                                                 nIn.events[i].category = "sleep"
                                                 /\ ~MalformedSleep(nIn.events[i])})

Wit_C18 ==
    /\ nOut # <<>> /\ nPrev # <<>>
    /\ Len(nIn.events) = 2
    /\ nIn.events[1] = Event("e1", "sleep", T(24, 0), T(7, 30))
    /\ nIn.events[2] = Event("e2", "sleep", T(23, 0), T(7, 30))
    /\ nIn.events[1] \in OutEvents
    /\ Len(OutSegments) = 1 /\ Len(PrevSegments) = 1

\* The rows of a store that belong to other days than the one of this id
OtherRows(st, id) ==
    [days |-> {d \in st.days : d.id # id},
     metrics |-> {m \in st.metrics : m.day_id # id},
     events |-> SelectSeq(st.events, LAMBDA e : e.day_id # id)]

\* C19: a DELETE that answers success was for a day the store held, and its
\* Day row, its events and its Metrics row are gone while the rows of the
\* other days are as they were; a DELETE for an id no Day row has answers
\* 404 and the store is as it was.
Thm_C19 ==
    \A p \in Slots :
        /\ (Deleting(rq[p]) /\ rq[p].pc = "done") =>
              /\ DaysById(rq[p].pre.days, rq[p].dayId) # {}
              /\ Now = OtherRows(rq[p].pre, rq[p].dayId)
        /\ (Deleting(rq[p]) /\ rq[p].pc \in {"done", "error"}
                            /\ DaysById(rq[p].pre.days, rq[p].dayId) = {}
                            /\ ~Failed(rq[p], "delSelect")) =>
              /\ rq[p].status = 404
              /\ Now = rq[p].pre
        /\ (Deleting(rq[p]) /\ rq[p].status = 404) =>
              /\ DaysById(rq[p].pre.days, rq[p].dayId) = {}
              /\ Now = rq[p].pre

Wit_C19 ==
    \E p \in Slots :
        /\ Deleting(rq[p]) /\ rq[p].pc = "done"
        /\ MetricsByDay(rq[p].pre.metrics, rq[p].dayId) # {}
        /\ EventsOfDay(rq[p].pre.events, rq[p].dayId) # <<>>
        /\ days # {} /\ metrics # {} /\ events # <<>>

\* The history a request read: its list without the transcript it appended
ReadHistory(r) == SubSeq(r.updatedTranscriptList, 1, Len(r.updatedTranscriptList) - 1)

Holds(history, t) == \E i \in DOMAIN history : history[i] = t

\* Both requests wrote the Day of the same date after reading the same history
Raced(p, q) ==
    /\ p # q
    /\ Did(rq[p], "upsertDay") /\ Did(rq[q], "upsertDay")
    /\ rq[p].analysis.date = rq[q].analysis.date
    /\ ReadHistory(rq[p]) = ReadHistory(rq[q])

\* The day upsert of request p has just succeeded
UpsertedDay(p) == rq[p].pc = "upsertDay" /\ rq'[p].pc = "upsertMetrics"

\* C20: when two requests for the same date have both read the same history
\* and both written the Day, the stored history is the list of one of them
\* and holds only that one's new transcript; every day upsert leaves the
\* stored history equal to the list of the request that made it.
Thm_C20 ==
    /\ [](\A p \in ConcSlots, q \in ConcSlots :
             Raced(p, q) =>
                 LET stored == HistoryOf(Now, rq[p].analysis.date)
                 IN  /\ stored \in {rq[p].updatedTranscriptList, rq[q].updatedTranscriptList}
                     /\ Holds(stored, rq[p].transcript) # Holds(stored, rq[q].transcript))
    /\ [][\A p \in ConcSlots :
             UpsertedDay(p) =>
                 \E d \in days' : /\ d.date = rq[p].analysis.date
                                   /\ d.transcript.items = rq[p].updatedTranscriptList]_vars

\* Both requests answered success, and the history holds only the recap of
\* the request that started first: its upsert came last.
Wit_C20 ==
    /\ Raced(1, 2)
    /\ rq[1].pc = "done" /\ rq[2].pc = "done"
    /\ HistoryOf(Now, rq[1].analysis.date) = <<rq[1].transcript>>

\* Both requests patched the same D-1 from the same read of its metrics
PatchRaced(p, q) ==
    /\ p # q
    /\ Did(rq[p], "prevUpsertMetrics") /\ Did(rq[q], "prevUpsertMetrics")
    /\ rq[p].analysis.date = rq[q].analysis.date
    /\ rq[p].prevMetrics = rq[q].prevMetrics

\* Request p ingested the date that request q patched, and q's patch had read
\* no metrics row for it
DirectRaced(p, q) ==
    /\ p # q
    /\ Did(rq[p], "upsertMetrics") /\ Did(rq[q], "prevUpsertMetrics")
    /\ rq[p].analysis.date = prevDate(rq[q])
    /\ rq[q].prevMetrics = {}

\* What the row of p's date holds when p's ingestion ran alone or last
IngestedMetrics(m, r) ==
    /\ m.sleep_hours = r.analysis.metrics.sleepHours
    /\ OtherMetrics(m) = <<r.analysis.metrics.productiveHours, r.analysis.metrics.neutralHours,
                           r.analysis.metrics.wastedHours, r.analysis.metrics.focusBlocks,
                           r.analysis.metrics.contextSwitches>>

\* What the row holds when the patch of q, having read nothing, wrote last
PatchedBlind(m, r) ==
    /\ m.sleep_hours = CarriedMinutes(r.prevSleepSegments)
    /\ OtherMetrics(m) = <<Null, Null, Null, Null, Null>>

\* C21: the patch is an unserialized read-modify-write. Two patches of D-1
\* made from the same read leave D-1's sleep at the read value plus the
\* carried minutes of one of them, less than the sum that either serial
\* order gives; a patch that read no metrics and an ingestion of D-1 leave
\* D-1's row as the ingestion's (the carried minutes lost) or as the patch's
\* (the ingestion's metrics lost), never the ingestion's row with the
\* carried minutes added.
Thm_C21 ==
    /\ \A p \in ConcSlots, q \in ConcSlots :
          PatchRaced(p, q) =>
              \A m \in DayView(Now, prevDate(rq[p])).metrics :
                  /\ m.sleep_hours \in
                        {ExistingSleep(rq[p].prevMetrics) + CarriedMinutes(rq[p].prevSleepSegments),
                         ExistingSleep(rq[p].prevMetrics) + CarriedMinutes(rq[q].prevSleepSegments)}
                  /\ m.sleep_hours < ExistingSleep(rq[p].prevMetrics)
                                       + CarriedMinutes(rq[p].prevSleepSegments)
                                       + CarriedMinutes(rq[q].prevSleepSegments)
    /\ \A p \in ConcSlots, q \in ConcSlots :
          DirectRaced(p, q) =>
              \A m \in DayView(Now, rq[p].analysis.date).metrics :
                  IngestedMetrics(m, rq[p]) \/ PatchedBlind(m, rq[q])

\* Both requests answered success and D-1's row is the blind patch's: the
\* ingestion of D-1 gives productive hours 240 in either serial order.
Wit_C21 ==
    \E p \in ConcSlots, q \in ConcSlots :
        /\ DirectRaced(p, q)
        /\ rq[p].pc = "done" /\ rq[q].pc = "done"
        /\ \E m \in DayView(Now, rq[p].analysis.date).metrics :
              PatchedBlind(m, rq[q]) /\ ~IngestedMetrics(m, rq[p])

\* The request is between its first store call and its response
InFlight(r) == r.pc \notin Terminal

\* C22: while an ingestion is in flight for a Day that had events before it
\* and whose new event list is not empty, GET /api/days/[id] of that Day
\* never answers an empty event list.
Orig_C22 ==
    \A p \in Slots :
        (/\ InFlight(rq[p])
         /\ rq[p].dayRow.id # NoId
         /\ EventsOfDay(rq[p].pre.events, rq[p].dayRow.id) # <<>>
         /\ rq[p].analysis.events # <<>>)
            => GetDay(rq[p].dayRow.id).events # <<>>

\* C23: a failed delete of the stale carryover event does not end the
\* request: the next call of the request is the insert of the new carryover
\* event, and when that insert succeeded D-1 holds the new event beside the
\* stale one; the request then goes on to the writes for D.
Thm_C23 ==
    \A p \in Slots :
        LET t == rq[p].trace
        IN  \A i \in DOMAIN t :
                t[i] = Step("prevDeleteCarry", FALSE) =>
                    /\ i = Len(t) => rq[p].pc = "prevInsertCarry"
                    /\ i < Len(t) => t[i + 1].op = "prevInsertCarry"
                    /\ (i < Len(t) /\ t[i + 1].ok) =>
                          /\ CarryRows(rq[p]) # <<>>
                          /\ CarryRows(rq[p])[Len(CarryRows(rq[p]))]
                                = CarryoverEvent(rq[p].prevDayId, rq[p].analysis.date,
                                                 rq[p].prevSleepSegments)
                          /\ CarryCount(Now, rq[p].analysis.date)
                                = CarryCount(rq[p].pre, rq[p].analysis.date) + 1
                    /\ i + 1 < Len(t) => t[i + 2].op = "selectUser"

Wit_C23 ==
    \E p \in Slots :
        /\ Failed(rq[p], "prevDeleteCarry")
        /\ Did(rq[p], "prevInsertCarry")
        /\ rq[p].pc = "done" /\ rq[p].status = 200
        /\ CarryCount(Now, rq[p].analysis.date) = 2
        /\ Did(rq[p], "insertEvents")

\* C25 as stated: the Day row an ingestion writes, and the Day its patch
\* works on, are those of the date of the request (D and D-1), whatever
\* date the summarizer's JSON carries.
Orig_C25 ==
    \A p \in Slots :
        /\ Did(rq[p], "upsertDay") =>
              \A d \in days : d.id = rq[p].dayRow.id => d.date = rq[p].date
        /\ rq[p].prevDayId # NoId =>
              \A d \in days : d.id = rq[p].prevDayId =>
                  d.date = getPreviousDateString(rq[p].date)

\* C26 as stated: every stored sleep_hours lies between 0 and 24 hours.
Orig_C26 ==
    \A m \in metrics : m.sleep_hours >= 0 /\ m.sleep_hours <= DAY_END

\* The carryover events for a date that a store holds on the day before
CarryOf(st, date) ==
    SelectSeq(DayView(st, getPreviousDateString(date)).events,
              LAMBDA e : e.label = carryLabel(date))

\* The minutes before midnight those events stand for
RECURSIVE CarriedBy(_)
CarriedBy(rows) ==
    IF rows = <<>> THEN 0
    ELSE (DAY_END - parseTimeToMinutes(Head(rows).start_time)) + CarriedBy(Tail(rows))

\* C27 as stated: after a successful re-ingestion of D, whose earlier
\* ingestion left a carryover on D-1, D-1 holds a carryover event for D only
\* if the new list has a cross-midnight sleep, and D-1's sleep hours are
\* those it had without the earlier carryover plus those of the new block.
Orig_C27 ==
    \A p \in Slots :
        (/\ rq[p].pc = "done"
         /\ CarryOf(rq[p].pre, rq[p].analysis.date) # <<>>
         /\ ~Failed(rq[p], "prevDeleteCarry")
         /\ ~Failed(rq[p], "prevInsertCarry"))
            => /\ Len(CarryOf(Now, rq[p].analysis.date))
                    = (IF Patching(rq[p]) THEN 1 ELSE 0)
               /\ SleepOf(Now, prevDate(rq[p]))
                    = {ExistingSleep(DayView(rq[p].pre, prevDate(rq[p])).metrics)
                         - CarriedBy(CarryOf(rq[p].pre, rq[p].analysis.date))
                         + CarriedMinutes(rq[p].prevSleepSegments)}

\* C28 as stated: a successful ingestion of a date that holds a carryover
\* from the next day leaves that carryover event in place, and the date's
\* sleep hours are its own plus the carried ones.
Orig_C28 ==
    \A p \in Slots :
        LET next == rq[p].analysis.date + 1
        IN  (/\ rq[p].pc = "done"
             /\ CarryOf(rq[p].pre, next) # <<>>)
                => /\ CarryOf(Now, next) = CarryOf(rq[p].pre, next)
                   /\ SleepOf(Now, rq[p].analysis.date)
                        = {rq[p].analysis.metrics.sleepHours
                             + CarriedBy(CarryOf(rq[p].pre, next))}

\* C29 as stated: the block the timeline shows as main sleep of the event
\* list the normaliser produced is the segment whose duration became
\* sleepHours.
Orig_C29 ==
    \A i \in DOMAIN nOut :
        LET shown == mainSleep(nOut[i].analysis.events)
            segs == nOut[i].sleepSegments
        IN  shown # <<>> =>
                /\ segs # <<>>
                /\ timeToMinutes(shown[1].start) = MainSegment(segs).startMinutes
                /\ timeToMinutes(shown[1].end) = MainSegment(segs).endMinutes

\* C30 as stated: while a request that is not authorized is the one being
\* served or the last one served, the store is as it was when it arrived.
Orig_C30 ==
    \A p \in Slots : ~rq[p].authorized => Now = rq[p].pre

(***************************************************************************)
(* Goals (checked under SpecGoals)                                         *)
(***************************************************************************)
\* The rows a step inserts
Inserted == {g \in goals' : \A h \in goals : h.id # g.id}

\* C24 as stated: a created goal gets a sort_order above that of every goal
\* the owner already has, and GET lists it last.
Orig_C24 ==
    [][\A g \in Inserted :
          /\ \A h \in goals : g.sort_order > h.sort_order
          /\ GetGoals(goals')[Len(GetGoals(goals'))] = g]_vars

====
